---- MODULE Spec2Model ----
(***************************************************************************)
(* Model of the layout-to-interval matching engine of                      *)
(* swissgeol-boreholes-dataextraction:                                     *)
(*   src/stratigraphy/main.py                 (process_page,               *)
(*       score_column_match, transform_groups,                             *)
(*       merge_blocks_by_vertical_spacing,                                 *)
(*       split_blocks_by_textline_length,                                  *)
(*       find_material_description_column)                                 *)
(*   src/stratigraphy/util/util.py            (x_overlap,                  *)
(*       x_overlap_significant_smallest)                                   *)
(*   src/stratigraphy/depthcolumn/depthcolumnentry.py                      *)
(*       (DepthColumnEntry, LayerDepthColumnEntry)                         *)
(*                                                                         *)
(* Every function of the engine is pure; Init draws the arguments of a     *)
(* call from bounded sets and one action applies the function as the code  *)
(* computes it and stores the return value.  The loops of                  *)
(* find_material_description_column run one round per action.              *)
(***************************************************************************)
EXTENDS Integers, Sequences, FiniteSets, TLC

VARIABLES
    op,      \* the function that is called
    args,    \* its arguments
    pc,      \* "call" before the function ran, "done" after it returned, the
             \* loop it is in while find_material_description_column runs
    result,  \* what the function returned
    locals   \* the local variables of find_material_description_column

vars == <<op, args, pc, result, locals>>

(***************************************************************************)
(* Bounds of the model.                                                    *)
(***************************************************************************)
MaxIntervals == 3          \* depth intervals handed to transform_groups
MaxBlocks == 3             \* text blocks handed to transform_groups
MaxTotalLines == 4         \* lines of all blocks handed to transform_groups
MaxX1 == 2                 \* line.rect.x1 ranges over 1..MaxX1
MaxGap == 2                \* gap between consecutive blocks (transform_groups)
SplitMaxBlocks == 2        \* text blocks handed to split_blocks_by_textline_length
SplitMaxTotalLines == 4    \* lines of all blocks handed to the split
MaxSplit == 2              \* target_split_count ranges over 0..MaxSplit
MergeMaxBlocks == 4        \* text blocks handed to merge_blocks_by_vertical_spacing
MergeMaxTotalLines == 5    \* lines of all blocks handed to the merge
MergeMaxGap == 3           \* gap between consecutive blocks (merge)
MaxColumns == 3            \* depth columns of a page
MaxCoord == 3              \* page coordinates range over 0..MaxCoord
MaxNoise == 2              \* noise count of a depth column (score_column_match)
MaxDescLines == 2          \* lines get_description_lines returns for a region
MaxFallbackBlocks == 1     \* blocks get_description_blocks returns in the fallback
MaxPage == 3               \* page numbers of depth column entries
MaxValue == 2              \* depth values of depth column entries
MaxLocLines == 3           \* lines handed to find_material_description_column

\* python None (no rect found)
None == [none |-> TRUE]

(***************************************************************************)
(* Sequence helpers (python list operations used by the code).             *)
(***************************************************************************)
RECURSIVE SumTo(_, _)
\* sum(f[1..k])
SumTo(f, k) == IF k <= 0 THEN 0 ELSE f[k] + SumTo(f, k - 1)

RECURSIVE Pow(_, _)
Pow(b, e) == IF e <= 0 THEN 1 ELSE b * Pow(b, e - 1)

Min2(a, b) == IF a <= b THEN a ELSE b
Max2(a, b) == IF a >= b THEN a ELSE b
Abs(a) == IF a < 0 THEN -a ELSE a

\* python: v in s
InSeq(v, s) == \E i \in 1..Len(s) : s[i] = v

\* python: s.remove(v), removes the first occurrence of v
ListRemove(s, v) ==
    LET first == CHOOSE i \in 1..Len(s) : s[i] = v /\ \A j \in 1..(i - 1) : s[j] # v
    IN  [k \in 1..(Len(s) - 1) |-> IF k < first THEN s[k] ELSE s[k + 1]]

RECURSIVE sorted(_)
\* python: sorted(s) for a list of numbers
sorted(s) ==
    IF s = <<>> THEN <<>>
    ELSE LET v == Head(s)
             rest == sorted(Tail(s))
         IN  SelectSeq(rest, LAMBDA e : e < v) \o <<v>> \o SelectSeq(rest, LAMBDA e : e >= v)

RECURSIVE Flatten(_)
\* [line for block in blocks for line in block.lines]
Flatten(blocks) ==
    IF blocks = <<>> THEN <<>> ELSE Head(blocks).lines \o Flatten(Tail(blocks))

(***************************************************************************)
(* fitz.Rect, TextLine, TextBlock                                          *)
(***************************************************************************)
Rect(x0, y0, x1, y1) == [x0 |-> x0, y0 |-> y0, x1 |-> x1, y1 |-> y1]

\* TextBlock(lines): a new block holds the given lines and is not terminated
\* by a geometric line
TextBlock(lines) == [lines |-> lines, is_terminated_by_line |-> FALSE]

line_count(block) == Len(block.lines)

\* TextBlock.concatenate: the lines of self followed by the lines of other
concatenate(block, other) == TextBlock(block.lines \o other.lines)

\* bounding rect of a non-empty block (only the vertical extent is used)
block_rect(block) ==
    LET ls == block.lines
        y0s == {ls[i].rect.y0 : i \in 1..Len(ls)}
        y1s == {ls[i].rect.y1 : i \in 1..Len(ls)}
    IN  Rect(0, CHOOSE y \in y0s : \A z \in y0s : y <= z,
             0, CHOOSE y \in y1s : \A z \in y1s : y >= z)

\* block_distance: vertical gap between the bounding rects of two blocks
block_distance(block1, block2) == block_rect(block2).y0 - block_rect(block1).y1

(***************************************************************************)
(* merge_blocks_by_vertical_spacing (main.py 262-297)                      *)
(***************************************************************************)
\* loop body of main.py 283-293 without the merged_count cap
merge_step_uncapped(blocks, target_merge_count, cutoff, block_index, st) ==
    LET new_block == blocks[block_index + 1]
    IN  IF block_distance(blocks[block_index], blocks[block_index + 1]) <= cutoff
        THEN [st EXCEPT !.current_merged_block = concatenate(@, new_block),
                        !.merged_count = @ + 1]
        ELSE [st EXCEPT !.merged_blocks = Append(@, st.current_merged_block),
                        !.current_merged_block = new_block]

\* loop body of main.py 283-293; block_index is 1-based here
merge_step(blocks, target_merge_count, cutoff, block_index, st) ==
    LET new_block == blocks[block_index + 1]
    IN  IF /\ st.merged_count < target_merge_count
           /\ block_distance(blocks[block_index], blocks[block_index + 1]) <= cutoff
        THEN [st EXCEPT !.current_merged_block = concatenate(@, new_block),
                        !.merged_count = @ + 1]
        ELSE [st EXCEPT !.merged_blocks = Append(@, st.current_merged_block),
                        !.current_merged_block = new_block]

RECURSIVE merge_loop(_, _, _, _, _)
\* for block_index in range(len(blocks) - 1)
merge_loop(blocks, target_merge_count, cutoff, block_index, st) ==
    IF block_index > Len(blocks) - 1 THEN st
    ELSE merge_loop(blocks, target_merge_count, cutoff, block_index + 1,
                    merge_step(blocks, target_merge_count, cutoff, block_index, st))

\* state of the walk after the loop of main.py 276-293
merge_walk(blocks, target_merge_count) ==
    LET distances == [i \in 1..(Len(blocks) - 1) |-> block_distance(blocks[i], blocks[i + 1])]
        cutoff == sorted(distances)[target_merge_count]
    IN  merge_loop(blocks, target_merge_count, cutoff, 1,
                   [merged_count |-> 0, merged_blocks |-> <<>>,
                    current_merged_block |-> blocks[1]])

\* main.py 262-297 without the trailing flush of lines 295-296
merge_blocks_no_flush(blocks, target_merge_count) ==
    merge_walk(blocks, target_merge_count).merged_blocks

merge_blocks_by_vertical_spacing(blocks, target_merge_count) ==
    LET st == merge_walk(blocks, target_merge_count)
    IN  IF Len(st.current_merged_block.lines) > 0
        THEN Append(st.merged_blocks, st.current_merged_block)
        ELSE st.merged_blocks

(***************************************************************************)
(* split_blocks_by_textline_length (main.py 300-337)                       *)
(***************************************************************************)
\* [line.rect.x1 for block in blocks for line in block.lines[:-1]]
RECURSIVE eligible_x1(_)
eligible_x1(blocks) ==
    IF blocks = <<>> THEN <<>>
    ELSE LET ls == Head(blocks).lines
         IN  [i \in 1..(Len(ls) - 1) |-> ls[i].rect.x1] \o eligible_x1(Tail(blocks))

\* main.py 324-329 where a split drops the lines accumulated so far
split_line_step_dropping(st, block, line_index) ==
    LET line == block.lines[line_index]
        current == Append(st.current_block_lines, line)
    IN  IF line_index < line_count(block) /\ InSeq(line.rect.x1, st.cutoff_values)
        THEN [cutoff_values |-> ListRemove(st.cutoff_values, line.rect.x1),
              split_blocks |-> Append(st.split_blocks, TextBlock(<<line>>)),
              current_block_lines |-> <<>>]
        ELSE [st EXCEPT !.current_block_lines = current]

\* main.py 324-329 where a matched cutoff value stays in cutoff_values
split_line_step_keeping_cutoff(st, block, line_index) ==
    LET line == block.lines[line_index]
        current == Append(st.current_block_lines, line)
    IN  IF line_index < line_count(block) /\ InSeq(line.rect.x1, st.cutoff_values)
        THEN [st EXCEPT !.split_blocks = Append(@, TextBlock(current)),
                        !.current_block_lines = <<>>]
        ELSE [st EXCEPT !.current_block_lines = current]

\* main.py 324-329; line_index is 1-based here
split_line_step(st, block, line_index) ==
    LET line == block.lines[line_index]
        current == Append(st.current_block_lines, line)
    IN  IF line_index < line_count(block) /\ InSeq(line.rect.x1, st.cutoff_values)
        THEN [cutoff_values |-> ListRemove(st.cutoff_values, line.rect.x1),
              split_blocks |-> Append(st.split_blocks, TextBlock(current)),
              current_block_lines |-> <<>>]
        ELSE [st EXCEPT !.current_block_lines = current]

RECURSIVE split_line_loop(_, _, _)
\* for line_index in range(block.line_count)
split_line_loop(st, block, line_index) ==
    IF line_index > line_count(block) THEN st
    ELSE split_line_loop(split_line_step(st, block, line_index), block, line_index + 1)

\* main.py 330-336: flush at the end of an input block, then the flag.
\* Every block has at least one line, so split_blocks is not empty here.
split_block_end(st, block) ==
    LET flushed == IF Len(st.current_block_lines) > 0
                   THEN [st EXCEPT !.split_blocks = Append(@, TextBlock(st.current_block_lines)),
                                   !.current_block_lines = <<>>]
                   ELSE st
        last == Len(flushed.split_blocks)
    IN  IF block.is_terminated_by_line /\ last > 0
        THEN [flushed EXCEPT !.split_blocks[last].is_terminated_by_line = TRUE]
        ELSE flushed

RECURSIVE split_block_loop(_, _)
\* for block in blocks
split_block_loop(st, blocks) ==
    IF blocks = <<>> THEN st
    ELSE split_block_loop(
             split_block_end(split_line_loop(st, Head(blocks), 1), Head(blocks)),
             Tail(blocks))

\* main.py 317: one block per line
one_block_per_line(blocks) ==
    LET ls == Flatten(blocks) IN [i \in 1..Len(ls) |-> TextBlock(<<ls[i]>>)]

\* main.py 319-336: the walk over all lines with the target_split_count smallest
\* eligible x1 values as cutoff_values; the locals after the walk
split_walk(blocks, target_split_count) ==
    split_block_loop(
        [cutoff_values |-> SubSeq(sorted(eligible_x1(blocks)), 1, target_split_count),
         split_blocks |-> <<>>,
         current_block_lines |-> <<>>],
        blocks)

split_blocks_by_textline_length(blocks, target_split_count) ==
    LET line_lengths == sorted(eligible_x1(blocks))
    IN  IF Len(line_lengths) <= target_split_count
        THEN one_block_per_line(blocks)
        ELSE split_walk(blocks, target_split_count).split_blocks

(***************************************************************************)
(* transform_groups (main.py 224-259)                                      *)
(***************************************************************************)
\* zip(depth_intervals, blocks)
zip_groups(depth_intervals, blocks) ==
    [i \in 1..Min2(Len(depth_intervals), Len(blocks)) |->
        [depth_interval |-> depth_intervals[i], block |-> blocks[i]]]

\* main.py 245-247 keeping the lines of the first block only
first_block_only(blocks) ==
    TextBlock(IF blocks = <<>> THEN <<>> ELSE blocks[1].lines)

\* main.py 245-247: all lines of all blocks in one block
concatenated_block(blocks) == TextBlock(Flatten(blocks))

transform_groups(depth_intervals, blocks) ==
    IF Len(depth_intervals) = 0 THEN <<>>
    ELSE IF Len(depth_intervals) = 1
    THEN <<[depth_interval |-> depth_intervals[1], block |-> concatenated_block(blocks)]>>
    ELSE LET blocks1 == IF Len(blocks) < Len(depth_intervals)
                        THEN split_blocks_by_textline_length(
                                 blocks, Len(depth_intervals) - Len(blocks))
                        ELSE blocks
             blocks2 == IF Len(blocks1) > Len(depth_intervals)
                        THEN merge_blocks_by_vertical_spacing(
                                 blocks1, Len(blocks1) - Len(depth_intervals))
                        ELSE blocks1
         IN  zip_groups(depth_intervals, blocks2)

(***************************************************************************)
(* fitz.Rect.intersects, score_column_match (main.py 182-205)              *)
(***************************************************************************)
\* fitz.Rect.is_empty
is_empty(r) == r.x0 >= r.x1 \/ r.y0 >= r.y1

\* fitz.Rect.intersects: two non-empty rects whose intersection is non-empty
intersects(r1, r2) ==
    /\ ~is_empty(r1)
    /\ ~is_empty(r2)
    /\ Max2(r1.x0, r2.x0) < Min2(r1.x1, r2.x1)
    /\ Max2(r1.y0, r2.y0) < Min2(r1.y1, r2.y1)

\* Scores are fractions with denominator 5^ScoreScale: a score s is
\* represented by the integer s * 5^ScoreScale, exactly.
ScoreScale == MaxNoise + 1

\* math.pow(1.25, noise_count) * 5^ScoreScale
pow_growing(noise_count) == Pow(5, noise_count) * Pow(4, ScoreScale - noise_count)

\* math.pow(0.8, noise_count) * 5^ScoreScale
pow_0_8(noise_count) == Pow(4, noise_count) * Pow(5, ScoreScale - noise_count)

\* main.py 192-196
column_distance(depth_column, material_description_rect) ==
    LET rect == depth_column.rect
        top == rect.y0
        bottom == rect.y1
        right == rect.x1
    IN  Abs(top - material_description_rect.y0)
        + Abs(bottom - material_description_rect.y1)
        + Abs(right - material_description_rect.x0)

\* main.py 198
column_height(depth_column) == depth_column.rect.y1 - depth_column.rect.y0

\* all_words is TRUE when a non-empty list of words is passed
score_column_match(depth_column, material_description_rect, all_words) ==
    LET distance == column_distance(depth_column, material_description_rect)
        height == column_height(depth_column)
        noise_count == IF all_words THEN depth_column.noise_count ELSE 0
    IN  (height - distance) * pow_0_8(noise_count)

(***************************************************************************)
(* process_page (main.py 87-159).  The depth columns of the page and the   *)
(* region find_material_description_column returns for each (None if none) *)
(* are the inputs; the lines get_description_lines finds for a surviving   *)
(* pair and the outcome of the fallback are drawn when the page is         *)
(* processed.                                                              *)
(***************************************************************************)
RECURSIVE collect_pairs(_, _, _)
\* main.py 87-91, from depth column i on
collect_pairs(depth_columns, regions, i) ==
    IF i > Len(depth_columns) THEN <<>>
    ELSE (IF regions[i] # None
          THEN <<[depth_column |-> depth_columns[i], rect |-> regions[i]]>>
          ELSE <<>>) \o collect_pairs(depth_columns, regions, i + 1)

pair_score(pair) == score_column_match(pair.depth_column, pair.rect, TRUE)

RECURSIVE sort_pairs(_)
\* main.py 94: pairs.sort(key=score), a stable sort, lowest score first
sort_pairs(pairs) ==
    IF pairs = <<>> THEN <<>>
    ELSE LET v == Head(pairs)
             rest == sort_pairs(Tail(pairs))
             key == pair_score(v)
         IN  SelectSeq(rest, LAMBDA e : pair_score(e) < key)
             \o <<v>>
             \o SelectSeq(rest, LAMBDA e : pair_score(e) >= key)

\* main.py 96-101 comparing a pair with every other pair
to_delete_any_other(pairs) ==
    {i \in 1..Len(pairs) :
        \E j \in 1..Len(pairs) : j # i /\ intersects(pairs[i].rect, pairs[j].rect)}

\* main.py 96-101 comparing a pair with pairs[i:], itself included
to_delete_from_self(pairs) ==
    {i \in 1..Len(pairs) :
        \E j \in i..Len(pairs) : intersects(pairs[i].rect, pairs[j].rect)}

\* main.py 96-101: the indexes of the pairs that intersect a later pair
to_delete(pairs) ==
    {i \in 1..Len(pairs) :
        \E j \in (i + 1)..Len(pairs) : intersects(pairs[i].rect, pairs[j].rect)}

RECURSIVE keep_from(_, _, _)
\* main.py 102: [item for index, item in enumerate(pairs) if index not in to_delete]
keep_from(pairs, deleted, i) ==
    IF i > Len(pairs) THEN <<>>
    ELSE (IF i \in deleted THEN <<>> ELSE <<pairs[i]>>) \o keep_from(pairs, deleted, i + 1)

\* main.py 87-94
sorted_pairs(depth_columns, regions) ==
    sort_pairs(collect_pairs(depth_columns, regions, 1))

\* main.py 87-102
filtered_pairs(depth_columns, regions) ==
    LET pairs == sorted_pairs(depth_columns, regions)
    IN  keep_from(pairs, to_delete(pairs), 1)

RECURSIVE matched_pairs(_, _, _)
\* main.py 108-132: the pairs match_columns is called for
matched_pairs(filtered, description_lines, i) ==
    IF i > Len(filtered) THEN <<>>
    ELSE (IF description_lines[i] > 1 THEN <<filtered[i]>> ELSE <<>>)
         \o matched_pairs(filtered, description_lines, i + 1)

\* main.py 106-159 taking the fallback when no pair contributed a group
pairs_or_fallback_on_no_groups(filtered, description_lines, fallback) ==
    LET matched == matched_pairs(filtered, description_lines, 1)
    IN  IF Len(matched) > 0
        THEN [filtered_pairs |-> filtered, description_lines |-> description_lines,
              fallback |-> FALSE, matched |-> matched, blocks_without_interval |-> 0]
        ELSE [filtered_pairs |-> filtered, description_lines |-> description_lines,
              fallback |-> TRUE, matched |-> <<>>,
              blocks_without_interval |-> IF fallback.found THEN fallback.blocks ELSE 0]

\* main.py 106-159.  description_lines[i]: number of lines
\* get_description_lines returns for surviving pair i; fallback: whether the
\* locator run without depth column found a region, and the number of blocks
\* get_description_blocks made of it
pairs_or_fallback(filtered, description_lines, fallback) ==
    IF Len(filtered) > 0
    THEN [filtered_pairs |-> filtered, description_lines |-> description_lines,
          fallback |-> FALSE,
          matched |-> matched_pairs(filtered, description_lines, 1),
          blocks_without_interval |-> 0]
    ELSE [filtered_pairs |-> filtered, description_lines |-> description_lines,
          fallback |-> TRUE, matched |-> <<>>,
          blocks_without_interval |-> IF fallback.found THEN fallback.blocks ELSE 0]

(***************************************************************************)
(* DepthColumnEntry, LayerDepthColumnEntry (depthcolumnentry.py)           *)
(***************************************************************************)
DepthColumnEntry(rect, value, page_number) ==
    [rect |-> rect, value |-> value, page_number |-> page_number]

\* LayerDepthColumnEntry.__init__ without the assertion
LayerDepthColumnEntry_unchecked(start, end) ==
    [raised |-> None, entry |-> [start |-> start, end |-> end]]

\* LayerDepthColumnEntry.__init__: the entry the caller gets, or the exception
LayerDepthColumnEntry(start, end) ==
    IF start.page_number = end.page_number
    THEN [raised |-> None, entry |-> [start |-> start, end |-> end]]
    ELSE [raised |-> [exception |-> "AssertionError",
                      message |-> "Start and end entries are on different pages."],
          entry |-> None]

(***************************************************************************)
(* x_overlap, x_overlap_significant_smallest (util/util.py 13-21) and      *)
(* find_material_description_column (main.py 340-440).  A line is a record *)
(* [id, rect, is_description]; coordinates are integers and every          *)
(* comparison with a fraction (0.5, 0.4, 0.01, 0.2, /2) is made exactly,   *)
(* multiplied through by the denominator.                                  *)
(***************************************************************************)
RECURSIVE min_of(_)
\* python: min(s) of a non-empty list of numbers
min_of(s) == IF Len(s) = 1 THEN s[1] ELSE Min2(s[1], min_of(Tail(s)))

RECURSIVE max_of(_)
\* python: max(s) of a non-empty list of numbers
max_of(s) == IF Len(s) = 1 THEN s[1] ELSE Max2(s[1], max_of(Tail(s)))

\* fitz.Rect.width
width(rect) == Max2(0, rect.x1 - rect.x0)

\* util.py 13-17
x_overlap(rect1, rect2) ==
    IF rect1.x0 < rect2.x1 /\ rect2.x0 < rect1.x1
    THEN Min2(rect1.x1, rect2.x1) - Max2(rect1.x0, rect2.x0)
    ELSE 0

\* util.py 20-21 with >= in place of >; level is given in percent
x_overlap_significant_or_equal(rect1, rect2, level) ==
    100 * x_overlap(rect1, rect2) >= level * Min2(width(rect1), width(rect2))

\* util.py 20-21; level is given in percent (50 for 0.5)
x_overlap_significant_smallest(rect1, rect2, level) ==
    100 * x_overlap(rect1, rect2) > level * Min2(width(rect1), width(rect2))

\* main.py 342-347: the lines above the depth column that overlap it in x
above_depth_column(lines, depth_column) ==
    SelectSeq(lines, LAMBDA line :
        /\ x_overlap(line.rect, depth_column.rect) # 0
        /\ line.rect.y0 < depth_column.rect.y0)

\* main.py 348-351
min_y0(lines, depth_column) ==
    LET above == above_depth_column(lines, depth_column)
    IN  IF Len(above) > 0 THEN max_of([i \in 1..Len(above) |-> above[i].rect.y0]) ELSE -1

\* main.py 341-354
check_y0_condition(lines, depth_column, y0) ==
    IF depth_column # None
    THEN y0 > min_y0(lines, depth_column) /\ y0 < depth_column.rect.y1
    ELSE TRUE

\* main.py 356
candidate_description(lines, depth_column) ==
    SelectSeq(lines, LAMBDA line : check_y0_condition(lines, depth_column, line.rect.y0))

\* main.py 365-367, for one generating line
coverage_of(line, is_description) ==
    SelectSeq(is_description, LAMBDA other :
        x_overlap_significant_smallest(line.rect, other.rect, 50))

\* main.py 370-377; x0 < max_x1 - 0.4 * (max_x1 - min_x0), times 10
filter_coverage(coverage) ==
    IF Len(coverage) > 0
    THEN LET min_x0 == min_of([i \in 1..Len(coverage) |-> coverage[i].rect.x0])
             max_x1 == max_of([i \in 1..Len(coverage) |-> coverage[i].rect.x1])
         IN  SelectSeq(coverage, LAMBDA line :
                 10 * line.rect.x0 < 10 * max_x1 - 4 * (max_x1 - min_x0))
    ELSE <<>>

\* main.py 364-381: max(coverage_by_generating_line, key=len) is the first list
\* of greatest length
max_coverage(is_description) ==
    LET coverage_by_generating_line ==
            [i \in 1..Len(is_description) |->
                filter_coverage(coverage_of(is_description[i], is_description))]
        first == CHOOSE i \in 1..Len(is_description) :
                    /\ \A j \in 1..Len(is_description) :
                           Len(coverage_by_generating_line[j])
                               <= Len(coverage_by_generating_line[i])
                    /\ \A j \in 1..(i - 1) :
                           Len(coverage_by_generating_line[j])
                               < Len(coverage_by_generating_line[i])
    IN  coverage_by_generating_line[first]

\* main.py 383
remove_cluster(is_description, cluster) ==
    SelectSeq(is_description, LAMBDA line : ~InSeq(line, cluster))

\* main.py 391-404; the window bounds x0 - 0.01 * width and x0 + 0.2 * width
\* are compared times 100
good_lines(cluster, candidates) ==
    LET best_y0 == min_of([i \in 1..Len(cluster) |-> cluster[i].rect.y0])
        best_y1 == max_of([i \in 1..Len(cluster) |-> cluster[i].rect.y1])
        min_description_x0 ==
            min_of([i \in 1..Len(cluster) |->
                       100 * cluster[i].rect.x0 - width(cluster[i].rect)])
        max_description_x0 ==
            max_of([i \in 1..Len(cluster) |->
                       100 * cluster[i].rect.x0 + 20 * width(cluster[i].rect)])
    IN  SelectSeq(candidates, LAMBDA line :
            /\ line.rect.y0 >= best_y0
            /\ line.rect.y1 <= best_y1
            /\ min_description_x0 < 100 * line.rect.x0
            /\ 100 * line.rect.x0 < max_description_x0)

\* main.py 411-421 without the bound on the left
is_below_any_left(best_x0, best_x1, best_y1, line) ==
    /\ 2 * line.rect.x0 < best_x0 + best_x1
    /\ line.rect.y0 < best_y1 + 10
    /\ line.rect.y1 > best_y1

\* main.py 411-421 with >= in place of > for y1
is_below_or_level(best_x0, best_x1, best_y1, line) ==
    /\ line.rect.x0 > best_x0 - 5
    /\ 2 * line.rect.x0 < best_x0 + best_x1
    /\ line.rect.y0 < best_y1 + 10
    /\ line.rect.y1 >= best_y1

\* main.py 411-421; best_x1 is the enclosing function's variable
is_below(best_x0, best_x1, best_y1, line) ==
    /\ line.rect.x0 > best_x0 - 5
    /\ 2 * line.rect.x0 < best_x0 + best_x1
    /\ line.rect.y0 < best_y1 + 10
    /\ line.rect.y1 > best_y1

\* main.py 425: next((line for line in lines if is_below(...)), None)
next_below(lines, best_x0, best_x1, best_y1) ==
    LET found == SelectSeq(lines, LAMBDA line : is_below(best_x0, best_x1, best_y1, line))
    IN  IF Len(found) > 0 THEN found[1] ELSE None

\* main.py 435-440: max(candidate_rects, key=score) is the first rect of
\* greatest score
best_candidate(candidate_rects, depth_column) ==
    IF Len(candidate_rects) = 0 THEN None
    ELSE IF depth_column # None
    THEN LET score(rect) == score_column_match(depth_column, rect, FALSE)
             first == CHOOSE i \in 1..Len(candidate_rects) :
                        /\ \A j \in 1..Len(candidate_rects) :
                               score(candidate_rects[j]) <= score(candidate_rects[i])
                        /\ \A j \in 1..(i - 1) :
                               score(candidate_rects[j]) < score(candidate_rects[i])
         IN  candidate_rects[first]
    ELSE candidate_rects[1]

(***************************************************************************)
(* Input text blocks.  The lines of a page are numbered in reading order   *)
(* (id); every line is one unit high, the lines of a block follow each     *)
(* other without gap and gaps[i] separates block i from block i + 1.       *)
(***************************************************************************)
MkLine(id, x1, y0) == [id |-> id, rect |-> Rect(0, y0, x1, y0 + 1)]

MkBlocks(shape, x1s, gaps, terms) ==
    [b \in 1..Len(shape) |->
        LET first == SumTo(shape, b - 1)
            top == first + SumTo(gaps, b - 1)
        IN  [lines |-> [k \in 1..shape[b] |-> MkLine(first + k, x1s[first + k], top + k - 1)],
             is_terminated_by_line |-> terms[b]]]

\* line counts of m blocks with at least one line each and at most total lines
Shapes(m, total) == {shape \in [1..m -> 1..total] : SumTo(shape, m) <= total}

(***************************************************************************)
(* Init draws the call (function and arguments); the action of a function  *)
(* applies it to the arguments and stores what it returns.                 *)
(***************************************************************************)
InitSplit ==
    \E m \in 0..SplitMaxBlocks, target_split_count \in 0..MaxSplit :
    \E shape \in Shapes(m, SplitMaxTotalLines), terms \in [1..m -> BOOLEAN] :
    \E x1s \in [1..SumTo(shape, m) -> 1..MaxX1] :
        /\ pc = "call"
        /\ result = <<>>
        /\ locals = <<>>
        /\ op = "split"
        /\ args = [blocks |-> MkBlocks(shape, x1s, [i \in 1..m |-> 1], terms),
                   target_split_count |-> target_split_count]

\* target_merge_count is a valid index into the len(blocks) - 1 distances
InitMerge ==
    \E m \in 2..MergeMaxBlocks :
    \E target_merge_count \in 1..(m - 1), shape \in Shapes(m, MergeMaxTotalLines),
       gaps \in [1..(m - 1) -> 1..MergeMaxGap] :
        /\ pc = "call"
        /\ result = <<>>
        /\ locals = <<>>
        /\ op = "merge"
        /\ args = [blocks |-> MkBlocks(shape, [i \in 1..SumTo(shape, m) |-> 1], gaps,
                                       [i \in 1..m |-> FALSE]),
                   target_merge_count |-> target_merge_count]

InitTransformGroups ==
    \E n \in 0..MaxIntervals, m \in 0..MaxBlocks :
    \E shape \in Shapes(m, MaxTotalLines), gaps \in [1..(m - 1) -> 1..MaxGap] :
    \E x1s \in [1..SumTo(shape, m) -> 1..MaxX1] :
        /\ pc = "call"
        /\ result = <<>>
        /\ locals = <<>>
        /\ op = "transform_groups"
        /\ args = [depth_intervals |-> [i \in 1..n |-> i],
                   blocks |-> MkBlocks(shape, x1s, gaps, [i \in 1..m |-> FALSE])]

\* a depth column of height h next to a region at most MaxCoord high
InitScore ==
    \E h \in 1..MaxCoord, x0 \in 0..MaxCoord, y0 \in 0..MaxCoord, noise_count \in 0..MaxNoise,
       all_words \in BOOLEAN :
    \E y1 \in y0..MaxCoord :
        /\ pc = "call"
        /\ result = <<>>
        /\ locals = <<>>
        /\ op = "score_column_match"
        /\ args = [depth_column |-> [id |-> 1, rect |-> Rect(0, 0, 1, h),
                                     noise_count |-> noise_count],
                   material_description_rect |-> Rect(x0, y0, x0 + 2, y1),
                   all_words |-> all_words]

\* the regions the locator can return for a depth column of the page
RegionRects == {Rect(x0, 0, x0 + 2, MaxCoord) : x0 \in 1..MaxCoord}

\* depth columns without or with one noise word, each with the region (or
\* None) the locator returns for it
InitProcessPage ==
    \E m \in 0..MaxColumns :
    \E noise \in [1..m -> {0, 1}], regions \in [1..m -> RegionRects \cup {None}] :
        /\ pc = "call"
        /\ result = <<>>
        /\ locals = <<>>
        /\ op = "process_page"
        /\ args = [depth_columns |-> [i \in 1..m |-> [id |-> i, rect |-> Rect(0, 0, 1, MaxCoord),
                                                      noise_count |-> noise[i]]],
                   regions |-> regions]

InitLayerDepthColumnEntry ==
    \E p1 \in 1..MaxPage, p2 \in 1..MaxPage, v1 \in 0..MaxValue, v2 \in 0..MaxValue :
        /\ pc = "call"
        /\ result = <<>>
        /\ locals = <<>>
        /\ op = "LayerDepthColumnEntry"
        /\ args = [start |-> DepthColumnEntry(Rect(0, v1, 1, v1 + 1), v1, p1),
                   end |-> DepthColumnEntry(Rect(0, v2, 1, v2 + 1), v2, p2)]

\* The lines of a page in reading order, 6 apart and one unit high, at the
\* left or the right, of width 0 or 4, description lines or not; no depth
\* column, one beside the first two lines or one beside the second and third.
InitFindMaterialDescriptionColumn ==
    \E m \in 0..MaxLocLines :
    \E x0s \in [1..m -> {0, 8}], widths \in [1..m -> {0, 4}], flags \in [1..m -> BOOLEAN],
       depth_column \in {None,
                         [id |-> 1, rect |-> Rect(0, 0, 1, 7), noise_count |-> 0],
                         [id |-> 1, rect |-> Rect(0, 6, 1, 13), noise_count |-> 0]} :
        /\ pc = "call"
        /\ result = <<>>
        /\ locals = <<>>
        /\ op = "find_material_description_column"
        /\ args = [lines |-> [i \in 1..m |->
                                [id |-> i,
                                 rect |-> Rect(x0s[i], 6 * (i - 1), x0s[i] + widths[i],
                                               6 * (i - 1) + 1),
                                 is_description |-> flags[i]]],
                   depth_column |-> depth_column]

Init ==
    \/ InitSplit
    \/ InitMerge
    \/ InitTransformGroups
    \/ InitScore
    \/ InitProcessPage
    \/ InitLayerDepthColumnEntry
    \/ InitFindMaterialDescriptionColumn

Returns(value) ==
    /\ pc = "call"
    /\ pc' = "done"
    /\ result' = value
    /\ UNCHANGED <<op, args, locals>>

Split ==
    /\ op = "split"
    /\ Returns(split_blocks_by_textline_length(args.blocks, args.target_split_count))

Merge ==
    /\ op = "merge"
    /\ Returns(merge_blocks_by_vertical_spacing(args.blocks, args.target_merge_count))

TransformGroups ==
    /\ op = "transform_groups"
    /\ Returns(transform_groups(args.depth_intervals, args.blocks))

Score ==
    /\ op = "score_column_match"
    /\ Returns(score_column_match(args.depth_column, args.material_description_rect,
                                  args.all_words))

FallbackOutcomes ==
    {[found |-> FALSE, blocks |-> 0]}
        \cup {[found |-> TRUE, blocks |-> k] : k \in 0..MaxFallbackBlocks}

\* the fallback's locator and get_description_blocks run only when no pair
\* survived
ProcessPage ==
    /\ op = "process_page"
    /\ LET filtered == filtered_pairs(args.depth_columns, args.regions)
       IN  \E description_lines \in [1..Len(filtered) -> 1..MaxDescLines],
              fallback \in IF Len(filtered) = 0 THEN FallbackOutcomes
                           ELSE {[found |-> FALSE, blocks |-> 0]} :
              Returns(pairs_or_fallback(filtered, description_lines, fallback))

ConstructLayerDepthColumnEntry ==
    /\ op = "LayerDepthColumnEntry"
    /\ Returns(LayerDepthColumnEntry(args.start, args.end))

\* The loops of find_material_description_column stop in the model after
\* LoopCap rounds; no loop of the code has such a limit.
LoopCap == MaxLocLines + 1

\* what find_material_description_column hands back: a rect or None, or the
\* exception it raised
Returned(value) == [raised |-> None, value |-> value]
Raised(exception) == [raised |-> [exception |-> exception], value |-> None]

\* main.py 341-361: the candidate lines and the description lines among them
GateLines ==
    /\ op = "find_material_description_column"
    /\ pc = "call"
    /\ LET candidates == candidate_description(args.lines, args.depth_column)
           is_description == SelectSeq(candidates, LAMBDA line : line.is_description)
       IN  IF Len(candidates) = 0
           THEN /\ pc' = "done"
                /\ result' = Returned(None)
                /\ UNCHANGED locals
           ELSE /\ pc' = IF Len(is_description) > 0 THEN "clustering" ELSE "clusters"
                /\ locals' = [candidate_description |-> candidates,
                              is_description |-> is_description,
                              description_clusters |-> <<>>,
                              good_lines |-> <<>>,
                              best_x0 |-> 0, best_y0 |-> 0, best_x1 |-> 0, best_y1 |-> 0,
                              absorbed |-> <<>>,
                              candidate_rects |-> <<>>]
                /\ UNCHANGED result
    /\ UNCHANGED <<op, args>>

\* main.py 363-383: one round of while len(is_description) > 0
ClusterIteration ==
    /\ op = "find_material_description_column"
    /\ pc = "clustering"
    /\ Len(locals.description_clusters) < LoopCap
    /\ LET cluster == max_coverage(locals.is_description)
           remaining == remove_cluster(locals.is_description, cluster)
       IN  /\ locals' = [locals EXCEPT !.description_clusters = Append(@, cluster),
                                       !.is_description = remaining]
           /\ pc' = IF Len(remaining) > 0 THEN "clustering" ELSE "clusters"
    /\ UNCHANGED <<op, args, result>>

\* main.py 387-408: the next cluster of for cluster in description_clusters, up
\* to the first bounds of its region; min and max of an empty list raise
\* ValueError
BeginCluster ==
    /\ op = "find_material_description_column"
    /\ pc = "clusters"
    /\ Len(locals.candidate_rects) < Len(locals.description_clusters)
    /\ LET cluster == locals.description_clusters[Len(locals.candidate_rects) + 1]
           good == good_lines(cluster, locals.candidate_description)
       IN  IF cluster = <<>> \/ good = <<>>
           THEN /\ pc' = "done"
                /\ result' = Raised("ValueError")
                /\ UNCHANGED locals
           ELSE /\ pc' = "expansion"
                /\ locals' =
                       [locals EXCEPT
                           !.good_lines = good,
                           !.best_y0 = min_of([i \in 1..Len(cluster) |-> cluster[i].rect.y0]),
                           !.best_y1 = max_of([i \in 1..Len(cluster) |-> cluster[i].rect.y1]),
                           !.best_x0 = min_of([i \in 1..Len(good) |-> good[i].rect.x0]),
                           !.best_x1 = max_of([i \in 1..Len(good) |-> good[i].rect.x1]),
                           !.absorbed = <<>>]
                /\ UNCHANGED result
    /\ UNCHANGED <<op, args>>

\* main.py 424-429: one round of while continue_search that finds a line;
\* absorbed lists the lines found for the cluster with the bounds they were
\* found under
Absorb ==
    /\ op = "find_material_description_column"
    /\ pc = "expansion"
    /\ Len(locals.absorbed) < LoopCap
    /\ LET line == next_below(args.lines, locals.best_x0, locals.best_x1, locals.best_y1)
       IN  /\ line # None
           /\ locals' = [locals EXCEPT
                             !.best_x0 = Min2(@, line.rect.x0),
                             !.best_x1 = Max2(@, line.rect.x1),
                             !.best_y1 = line.rect.y1,
                             !.absorbed = Append(@, [line |-> line,
                                                     best_x0 |-> locals.best_x0,
                                                     best_x1 |-> locals.best_x1,
                                                     best_y1 |-> locals.best_y1])]
    /\ UNCHANGED <<op, args, pc, result>>

\* main.py 424-433: the round that finds no line ends the search and the
\* region of the cluster is appended
EndCluster ==
    /\ op = "find_material_description_column"
    /\ pc = "expansion"
    /\ next_below(args.lines, locals.best_x0, locals.best_x1, locals.best_y1) = None
    /\ locals' = [locals EXCEPT
                      !.candidate_rects =
                          Append(@, Rect(locals.best_x0, locals.best_y0,
                                         locals.best_x1, locals.best_y1))]
    /\ pc' = "clusters"
    /\ UNCHANGED <<op, args, result>>

\* main.py 435-440
ReturnRect ==
    /\ op = "find_material_description_column"
    /\ pc = "clusters"
    /\ Len(locals.candidate_rects) = Len(locals.description_clusters)
    /\ pc' = "done"
    /\ result' = Returned(best_candidate(locals.candidate_rects, args.depth_column))
    /\ UNCHANGED <<op, args, locals>>

Next ==
    \/ Split
    \/ Merge
    \/ TransformGroups
    \/ Score
    \/ ProcessPage
    \/ ConstructLayerDepthColumnEntry
    \/ GateLines
    \/ ClusterIteration
    \/ BeginCluster
    \/ Absorb
    \/ EndCluster
    \/ ReturnRect

Spec == Init /\ [][Next]_vars

\* one specification per function
SpecSplit == InitSplit /\ [][Split]_vars
SpecMerge == InitMerge /\ [][Merge]_vars
SpecTransformGroups == InitTransformGroups /\ [][TransformGroups]_vars
SpecScore == InitScore /\ [][Score]_vars
SpecProcessPage == InitProcessPage /\ [][ProcessPage]_vars
SpecLayerDepthColumnEntry ==
    InitLayerDepthColumnEntry /\ [][ConstructLayerDepthColumnEntry]_vars
SpecFindMaterialDescriptionColumn ==
    InitFindMaterialDescriptionColumn
        /\ [][GateLines \/ ClusterIteration \/ BeginCluster \/ Absorb \/ EndCluster
                \/ ReturnRect]_vars

(***************************************************************************)
(* Properties                                                              *)
(***************************************************************************)
Done(f) == op = f /\ pc = "done"

\* number of consecutive block pairs of blocks that are at most cutoff apart
PairsWithin(blocks, cutoff) ==
    Cardinality({i \in 1..(Len(blocks) - 1) :
                    block_distance(blocks[i], blocks[i + 1]) <= cutoff})

MergeCutoff(blocks, target_merge_count) ==
    sorted([i \in 1..(Len(blocks) - 1) |->
               block_distance(blocks[i], blocks[i + 1])])[target_merge_count]

\* C1: for n > 1 depth intervals and any m >= 0 blocks, transform_groups
\* returns exactly n (depth_interval, block) entries.
C1_TransformGroupsReturnsN ==
    (Done("transform_groups") /\ Len(args.depth_intervals) > 1)
        => Len(result) = Len(args.depth_intervals)

\* the (depth column, region) pairs collected for the page of args
CollectedPairs ==
    LET pairs == collect_pairs(args.depth_columns, args.regions, 1)
    IN  {pairs[i] : i \in 1..Len(pairs)}

\* pair a stands before pair b in ascending score order (the sort is stable
\* and the pairs are collected in depth column order)
SortsBefore(a, b) ==
    \/ pair_score(a) < pair_score(b)
    \/ pair_score(a) = pair_score(b) /\ a.depth_column.id < b.depth_column.id

Survives(a) == InSeq(a, result.filtered_pairs)

\* C2: for any two pairs of a page whose region rects intersect, the
\* lower-scoring pair is absent from filtered_pairs and the higher-scoring pair
\* is present in filtered_pairs.
C2_LowerAbsentHigherPresent ==
    Done("process_page") =>
        \A a \in CollectedPairs, b \in CollectedPairs :
            (intersects(a.rect, b.rect) /\ pair_score(a) < pair_score(b))
                => (~Survives(a) /\ Survives(b))

\* C2 (amended): for any two pairs whose region rects intersect, the pair that
\* stands first in ascending score order is absent from filtered_pairs; the
\* other one is present exactly when its rect intersects the rect of no pair
\* that stands after it.
C2_LowerAbsentHigherPresentUnlessBeaten ==
    Done("process_page") =>
        \A a \in CollectedPairs, b \in CollectedPairs :
            (intersects(a.rect, b.rect) /\ SortsBefore(a, b))
                => /\ ~Survives(a)
                   /\ Survives(b) <=>
                          ~\E c \in CollectedPairs :
                              SortsBefore(b, c) /\ intersects(b.rect, c.rect)

\* a chain of three pairs: the middle one intersects both others and is
\* removed, the highest-scoring one survives
C2_Witness ==
    /\ Done("process_page")
    /\ \E a \in CollectedPairs, b \in CollectedPairs, c \in CollectedPairs :
          /\ SortsBefore(a, b) /\ SortsBefore(b, c)
          /\ intersects(a.rect, b.rect) /\ intersects(b.rect, c.rect)
          /\ ~intersects(a.rect, c.rect)
          /\ ~Survives(a) /\ ~Survives(b) /\ Survives(c)

\* the score of the call of args with the noise count of the column raised by one
ScoreWithOneMoreNoise ==
    score_column_match([args.depth_column EXCEPT !.noise_count = @ + 1],
                       args.material_description_rect, args.all_words)

\* C3: for every fixed height and distance, score_column_match is strictly
\* smaller for noise count k + 1 than for noise count k.
C3_NoiseStrictlyDecreasesScore ==
    (Done("score_column_match") /\ args.all_words) => ScoreWithOneMoreNoise < result

\* C3 (amended): for every fixed height and distance with height > distance,
\* score_column_match is strictly smaller for noise count k + 1 than for k.
C3_NoiseDecreasesPositiveScore ==
    (/\ Done("score_column_match")
     /\ args.all_words
     /\ column_height(args.depth_column)
            > column_distance(args.depth_column, args.material_description_rect))
        => ScoreWithOneMoreNoise < result

\* a noisy column that is higher than it is far from its region
C3_Witness ==
    /\ Done("score_column_match")
    /\ args.all_words
    /\ args.depth_column.noise_count >= 1
    /\ column_height(args.depth_column)
           > column_distance(args.depth_column, args.material_description_rect)
    /\ ScoreWithOneMoreNoise < result

\* C4: merge_blocks_by_vertical_spacing(blocks, t) with 1 <= t <= len(blocks) - 1
\* performs exactly t merges and returns len(blocks) - t blocks, also when
\* several distances equal the cutoff.
C4_MergeExactlyTarget ==
    Done("merge") =>
        /\ merge_walk(args.blocks, args.target_merge_count).merged_count
               = args.target_merge_count
        /\ Len(result) = Len(args.blocks) - args.target_merge_count

\* a merge where more pairs are within the cutoff than merges were asked for
C4_Witness ==
    /\ Done("merge")
    /\ PairsWithin(args.blocks, MergeCutoff(args.blocks, args.target_merge_count))
           > args.target_merge_count
    /\ Len(result) = Len(args.blocks) - args.target_merge_count

\* C5: the blocks returned by split_blocks_by_textline_length hold, concatenated
\* in output order, exactly the lines of the input blocks in input order.
C5_SplitPreservesLines ==
    Done("split") => Flatten(result) = Flatten(args.blocks)

\* a split on the cutoff path that cut a block in two
C5_Witness ==
    /\ Done("split")
    /\ Len(eligible_x1(args.blocks)) > args.target_split_count
    /\ Len(result) > Len(args.blocks)
    /\ Flatten(result) = Flatten(args.blocks)

\* C6: the blocks returned by merge_blocks_by_vertical_spacing hold the lines
\* of the input blocks in input order, each output block being the
\* concatenation of a run of consecutive input blocks.
C6_MergePreservesLines ==
    Done("merge") =>
        /\ Flatten(result) = Flatten(args.blocks)
        /\ SumTo([i \in 1..Len(result) |-> line_count(result[i])], Len(result))
               = SumTo([i \in 1..Len(args.blocks) |-> line_count(args.blocks[i])],
                       Len(args.blocks))
        /\ \A k \in 1..Len(result) :
               \E i \in 1..Len(args.blocks), j \in 1..Len(args.blocks) :
                   i <= j /\ result[k].lines = Flatten(SubSeq(args.blocks, i, j))

\* a merge that joined blocks and left a last block of its own
C6_Witness ==
    /\ Done("merge")
    /\ Len(result) >= 2
    /\ \E k \in 1..Len(result), b \in 1..Len(args.blocks) :
           line_count(result[k]) > line_count(args.blocks[b])
           /\ SubSeq(result[k].lines, 1, line_count(args.blocks[b])) = args.blocks[b].lines
    /\ result[Len(result)].lines = args.blocks[Len(args.blocks)].lines

\* C7: in split_blocks_by_textline_length an output block carries
\* is_terminated_by_line exactly when it is the last block produced from an
\* input block that carried it (cutoff path and one-block-per-line path).
C7_SplitPropagatesFlag ==
    Done("split") =>
        \A k \in 1..Len(result) :
            result[k].is_terminated_by_line
                <=> \E b \in 1..Len(args.blocks) :
                        /\ args.blocks[b].is_terminated_by_line
                        /\ result[k].lines[line_count(result[k])]
                               = args.blocks[b].lines[line_count(args.blocks[b])]

\* C8: transform_groups returns [] for zero depth intervals and, for one depth
\* interval, one entry pairing it with a block of all lines of all input
\* blocks in their order.
C8_ZeroAndSingleInterval ==
    Done("transform_groups") =>
        /\ Len(args.depth_intervals) = 0 => result = <<>>
        /\ Len(args.depth_intervals) = 1 =>
               /\ Len(result) = 1
               /\ result[1].depth_interval = args.depth_intervals[1]
               /\ result[1].block.lines = Flatten(args.blocks)

\* one depth interval and several blocks
C8_Witness ==
    /\ Done("transform_groups")
    /\ Len(args.depth_intervals) = 1
    /\ Len(args.blocks) = MaxBlocks
    /\ Len(result) = 1
    /\ Len(result[1].block.lines) > MaxBlocks

\* C9: process_page takes the fallback path exactly when no pair survives the
\* filtering; with a surviving pair it is not taken, whatever the number of
\* description lines of the surviving pairs.
C9_FallbackIffNoPairSurvives ==
    Done("process_page") =>
        (result.fallback <=> Len(filtered_pairs(args.depth_columns, args.regions)) = 0)

\* pairs survive, none has more than one description line, nothing is matched
\* and the fallback is not taken
C9_Witness ==
    /\ Done("process_page")
    /\ Len(result.filtered_pairs) >= 1
    /\ \A i \in 1..Len(result.filtered_pairs) : result.description_lines[i] <= 1
    /\ result.matched = <<>>
    /\ ~result.fallback

\* C10: constructing a LayerDepthColumnEntry from entries of different pages
\* fails at construction; no entry with start.page_number # end.page_number
\* is returned.
C10_DifferentPagesFail ==
    Done("LayerDepthColumnEntry") =>
        /\ args.start.page_number # args.end.page_number
               => (result.raised # None /\ result.entry = None)
        /\ result.entry # None
               => result.entry.start.page_number = result.entry.end.page_number

\* a construction from entries of different pages that raised
C10_Witness ==
    /\ Done("LayerDepthColumnEntry")
    /\ args.start.page_number # args.end.page_number
    /\ result.raised # None
    /\ result.raised.exception = "AssertionError"

\* blocks i and i + 1 of the input ended up inside one block of the result
MergedTogether(i) ==
    \E k \in 1..Len(result) :
        /\ InSeq(args.blocks[i].lines[1], result[k].lines)
        /\ InSeq(args.blocks[i + 1].lines[1], result[k].lines)

\* C14: merge_blocks_by_vertical_spacing merges all consecutive block pairs
\* whose distance is smaller than the cutoff (the target_merge_count-th smallest
\* distance): every adjacent pair with distance strictly below the cutoff ends
\* up inside one output block.
C14_MergesAllBelowCutoff ==
    Done("merge") =>
        \A i \in 1..(Len(args.blocks) - 1) :
            block_distance(args.blocks[i], args.blocks[i + 1])
                    < MergeCutoff(args.blocks, args.target_merge_count)
                => MergedTogether(i)

\* the target_split_count smallest eligible x1 values of the call
SmallestEligible == SubSeq(sorted(eligible_x1(args.blocks)), 1, args.target_split_count)

\* the lines of the input after which the result starts a new block although
\* the input block goes on: the places where a split fell
SplitLines ==
    {line \in {result[k].lines[Len(result[k].lines)] : k \in 1..Len(result)} :
        \A i \in 1..Len(args.blocks) :
            line # args.blocks[i].lines[Len(args.blocks[i].lines)]}

\* C15: when more lines are eligible than target_split_count,
\* split_blocks_by_textline_length consumes every cutoff value exactly once and
\* returns exactly len(blocks) + target_split_count blocks, also when eligible
\* lines share an x1 value; each split falls directly after a non-last line
\* whose x1 is one of the target_split_count smallest eligible x1 values.
C15_SplitConsumesEveryCutoff ==
    (Done("split") /\ Len(eligible_x1(args.blocks)) > args.target_split_count) =>
        /\ split_walk(args.blocks, args.target_split_count).cutoff_values = <<>>
        /\ Len(result) = Len(args.blocks) + args.target_split_count
        /\ Cardinality(SplitLines) = args.target_split_count
        /\ \A line \in SplitLines : InSeq(line.rect.x1, SmallestEligible)

\* a split on the cutoff path where the largest cutoff value is shared by an
\* eligible line that is not a cutoff
C15_Witness ==
    /\ Done("split")
    /\ args.target_split_count >= 1
    /\ Len(eligible_x1(args.blocks)) > args.target_split_count
    /\ sorted(eligible_x1(args.blocks))[args.target_split_count]
           = sorted(eligible_x1(args.blocks))[args.target_split_count + 1]
    /\ Len(result) = Len(args.blocks) + args.target_split_count

\* C16: after the pair filtering of process_page the region rects of the
\* surviving pairs are pairwise non-intersecting, and whenever at least one
\* pair was collected the highest-scoring pair (the last in ascending score
\* order) survives, so filtered_pairs is empty only if no depth column yielded
\* a region.
C16_SurvivorsDisjointAndBestSurvives ==
    Done("process_page") =>
        /\ \A i \in 1..Len(result.filtered_pairs), j \in 1..Len(result.filtered_pairs) :
               i # j => ~intersects(result.filtered_pairs[i].rect,
                                    result.filtered_pairs[j].rect)
        /\ \A b \in CollectedPairs :
               (\A a \in CollectedPairs : a # b => SortsBefore(a, b)) => Survives(b)
        /\ result.filtered_pairs = <<>>
               => \A i \in 1..Len(args.regions) : args.regions[i] = None

\* a page with three collected pairs where the last pair in score order
\* intersects another pair and two pairs survive
C16_Witness ==
    /\ Done("process_page")
    /\ Cardinality(CollectedPairs) = 3
    /\ Len(result.filtered_pairs) = 2
    /\ \E a \in CollectedPairs, b \in CollectedPairs :
           /\ \A c \in CollectedPairs : c # b => SortsBefore(c, b)
           /\ a # b
           /\ intersects(a.rect, b.rect)
           /\ Survives(b)
           /\ ~Survives(a)

\* find_material_description_column is past the vertical gating and has its
\* local variables
Locating ==
    /\ op = "find_material_description_column"
    /\ pc \in {"clustering", "clusters", "expansion"}

\* the description lines among the candidate lines, the pool the clustering
\* loop starts from
DescriptionPool == SelectSeq(locals.candidate_description, LAMBDA line : line.is_description)

\* C11: the clustering loop of find_material_description_column terminates:
\* each iteration selects a non-empty cluster and removes at least one line
\* from the remaining description lines, also when description lines have
\* zero-width rects.  After k iterations there are k non-empty clusters and at
\* least k lines fewer to go.
C11_ClusteringRemovesALine ==
    Locating =>
        /\ \A k \in 1..Len(locals.description_clusters) :
               locals.description_clusters[k] # <<>>
        /\ Len(locals.is_description) + Len(locals.description_clusters)
               <= Len(DescriptionPool)

\* the cluster the loop over description_clusters is working on
CurrentCluster == locals.description_clusters[Len(locals.candidate_rects) + 1]

\* C12: find_material_description_column never reduces (min/max) over an empty
\* collection: every cluster it processes and the good lines selected for it
\* are non-empty, also for lines with zero-width rects, so no reduction raises.
C12_NoEmptyReduction ==
    /\ (Locating /\ pc = "expansion") =>
           /\ CurrentCluster # <<>>
           /\ locals.good_lines # <<>>
    /\ Locating =>
           \A k \in 1..Len(locals.candidate_rects) : locals.description_clusters[k] # <<>>
    /\ Done("find_material_description_column") => result.raised = None

\* a cluster is being processed while a zero-width candidate line lies inside
\* its vertical span
C12_Witness ==
    /\ Locating
    /\ pc = "expansion"
    /\ locals.absorbed = <<>>
    /\ locals.good_lines # <<>>
    /\ \E i \in 1..Len(locals.candidate_description) :
           /\ width(locals.candidate_description[i].rect) = 0
           /\ locals.candidate_description[i].rect.y0 >= locals.best_y0
           /\ locals.candidate_description[i].rect.y1 <= locals.best_y1

\* C13: when a depth column is given, every line absorbed by the downward
\* expansion of find_material_description_column is a candidate line of the
\* vertical gating step (min_y0 < line.y0 < column.rect.y1); no line outside
\* the candidate set is absorbed into the region.
C13_AbsorbedLinesAreCandidates ==
    (Locating /\ args.depth_column # None) =>
        \A k \in 1..Len(locals.absorbed) :
            InSeq(locals.absorbed[k].line, locals.candidate_description)

\* C13, amended: when a depth column is given, every line absorbed by the
\* downward expansion is a line of the page that lies, for the bounds of the
\* region at the time, right of best_x0 - 5, left of the middle of the region,
\* less than 10 below best_y1 and ends below best_y1; it need not be a
\* candidate line.
C13_AbsorbedLinesAreBelowRegion ==
    (Locating /\ args.depth_column # None) =>
        \A k \in 1..Len(locals.absorbed) :
            LET found == locals.absorbed[k]
            IN  /\ InSeq(found.line, args.lines)
                /\ found.line.rect.x0 > found.best_x0 - 5
                /\ 2 * found.line.rect.x0 < found.best_x0 + found.best_x1
                /\ found.line.rect.y0 < found.best_y1 + 10
                /\ found.line.rect.y1 > found.best_y1

\* with a depth column, the expansion absorbed a line that starts at or below
\* the lower end of the column and so is no candidate line
C13_Witness ==
    /\ Locating
    /\ args.depth_column # None
    /\ \E k \in 1..Len(locals.absorbed) :
           /\ locals.absorbed[k].line.rect.y0 >= args.depth_column.rect.y1
           /\ ~InSeq(locals.absorbed[k].line, locals.candidate_description)

\* C17: the downward-expansion loop of find_material_description_column
\* terminates: every absorbed line has y1 strictly greater than the best_y1 it
\* was found under and absorbing it sets best_y1 to that y1, so best_y1
\* strictly increases and at most len(lines) absorptions happen per cluster.
C17_ExpansionRaisesBestY1 ==
    Locating =>
        /\ \A k \in 1..Len(locals.absorbed) :
               /\ locals.absorbed[k].line.rect.y1 > locals.absorbed[k].best_y1
               /\ locals.absorbed[k].line.rect.y1
                      = (IF k < Len(locals.absorbed) THEN locals.absorbed[k + 1].best_y1
                         ELSE locals.best_y1)
        /\ \A j \in 1..Len(locals.absorbed), k \in 1..Len(locals.absorbed) :
               j < k => locals.absorbed[j].line # locals.absorbed[k].line
        /\ Len(locals.absorbed) <= Len(args.lines)

\* the expansion of one cluster absorbed two lines one after the other
C17_Witness ==
    /\ Locating
    /\ Len(locals.absorbed) = 2
    /\ locals.absorbed[1].best_y1 < locals.absorbed[2].best_y1
    /\ locals.absorbed[2].best_y1 < locals.best_y1

====
